---- MODULE Spec2Model ----
(***************************************************************************)
(* Model of MLbibs/start01/process_images.py: main() creates the two       *)
(* output directories, globs the archives of INPUT_DIR and maps            *)
(* process_zip_archive over them on a ProcessPoolExecutor; each call loads *)
(* the detection model, opens its archive and, image entry by image entry, *)
(* decodes, runs the detector and writes crops or the whole image.         *)
(* File names are sequences of one-character strings, so that basename,    *)
(* splitext and the f-string naming are computed as Python computes them.  *)
(***************************************************************************)
EXTENDS Integers, Sequences, FiniteSets, Bags, TLC

\* ---------------------------------------------------------------- bounds
NumWorkers == 2
MaxBoxes == 2
MaxRuns == 2

VARIABLES
    listing,     \* names present in INPUT_DIR, as the file system lists them
    archive,     \* name -> [namelist, open]: the content of each archive
    modelLoads,  \* whether YOLO("yolov8s.pt") succeeds in this environment
    oc,          \* <<zip_path, image_name>> -> Outcome, fixed once met
    run,         \* how many times the script has been started
    pc,          \* where main is
    dirs,        \* directories that exist under OUTPUT_DIR
    files,       \* paths that exist in the output directories
    zip_files,   \* main's zip_files
    fut,         \* the futures of executor.map, by position in zip_files
    result,      \* what each finished call returned
    nxt,         \* position of the result main waits for
    wk,          \* the pool's worker processes
    loads,       \* model loads done by each worker process
    calls,       \* calls of process_zip_archive per position in zip_files
    handled,     \* <<i, image_name>>: entries the loop body is through with
    wrote,       \* <<i, image_name, detection index or -1, path>> written
    log          \* bag of logged records <<level, message, zip_path, image_name>>

vars == <<listing, archive, modelLoads, oc, run, pc, dirs, files, zip_files, fut,
          result, nxt, wk, loads, calls, handled, wrote, log>>

\* ------------------------------------------------------- program constants
INPUT_DIR == <<"z","i","p">>
PERSON_DIR == <<"o","u","t","p","u","t","/","P","e","r","s","o","n">>
NO_PERSON_DIR == <<"o","u","t","p","u","t","/","N","o","_","P","e","r","s","o","n">>

\* ------------------------------------------------------------ string helpers
Upper == <<"A","B","C","D","E","F","G","H","I","J","K","L","M",
           "N","O","P","Q","R","S","T","U","V","W","X","Y","Z">>
LowerL == <<"a","b","c","d","e","f","g","h","i","j","k","l","m",
            "n","o","p","q","r","s","t","u","v","w","x","y","z">>

\* str.lower() on one character
LowerChar(c) ==
    IF \E k \in 1..26 : Upper[k] = c
    THEN LowerL[CHOOSE k \in 1..26 : Upper[k] = c]
    ELSE c

\* str.lower()
Lower(s) == [k \in 1..Len(s) |-> LowerChar(s[k])]

\* str.endswith(suffix)
EndsWith(s, suf) ==
    /\ Len(s) >= Len(suf)
    /\ SubSeq(s, Len(s) - Len(suf) + 1, Len(s)) = suf

\* str.rfind(c), 1-based, 0 when absent
RFind(s, c) ==
    IF \E k \in 1..Len(s) : s[k] = c
    THEN CHOOSE k \in 1..Len(s) : s[k] = c /\ \A m \in (k+1)..Len(s) : s[m] # c
    ELSE 0

\* os.path.join(a, b) for a relative b
PathJoin(a, b) == a \o <<"/">> \o b

\* os.path.basename(p)
Basename(p) == SubSeq(p, RFind(p, "/") + 1, Len(p))

\* os.path.splitext(p)[0]: the extension starts at the last dot of the last
\* component, unless only dots precede it there
SplitextRoot(p) ==
    LET sep == RFind(p, "/")
        dot == RFind(p, ".")
    IN  IF dot > sep /\ \E k \in (sep+1)..(dot-1) : p[k] # "."
        THEN SubSeq(p, 1, dot - 1)
        ELSE p

Digits == <<"0","1","2","3","4","5","6","7","8","9">>

\* str(i) for i >= 0, as the f-string formats the detection index
RECURSIVE IntToStr(_)
IntToStr(i) ==
    IF i < 10 THEN <<Digits[i + 1]>>
    ELSE IntToStr(i \div 10) \o <<Digits[(i % 10) + 1]>>

\* ------------------------------------------------------------------ naming
\* line 32: the entries process_zip_archive treats as images
IsImageName(f) ==
    \/ EndsWith(Lower(f), <<".","p","n","g">>)
    \/ EndsWith(Lower(f), <<".","j","p","g">>)
    \/ EndsWith(Lower(f), <<".","j","p","e","g">>)

\* a crop name that also carries the number of the run
PersonPathStamped(zip_path, image_name, i) ==
    PathJoin(PERSON_DIR,
        SplitextRoot(Basename(zip_path)) \o <<"_">> \o
        SplitextRoot(Basename(image_name)) \o
        <<"_","p","e","r","s","o","n","_">> \o IntToStr(i) \o
        <<"_">> \o IntToStr(run) \o <<".","j","p","g">>)

\* lines 57-60: path of the crop of detection i
PersonPath(zip_path, image_name, i) ==
    PathJoin(PERSON_DIR,
        SplitextRoot(Basename(zip_path)) \o <<"_">> \o
        SplitextRoot(Basename(image_name)) \o
        <<"_","p","e","r","s","o","n","_">> \o IntToStr(i) \o
        <<".","j","p","g">>)

\* lines 63-66: path of the whole image of an entry without a person
NoPersonPath(zip_path, image_name) ==
    PathJoin(NO_PERSON_DIR,
        SplitextRoot(Basename(zip_path)) \o <<"_">> \o Basename(image_name))


\* ------------------------------------------------------------ the inputs
\* candidate names in INPUT_DIR
ZipA == <<"a",".","z","i","p">>
ZipAB == <<"a","_","b",".","z","i","p">>
NotesTxt == <<"n",".","t","x","t">>
DirNames == {ZipA, ZipAB, NotesTxt}

\* candidate contents of INPUT_DIR, in the order the file system lists them
Listings ==
    { <<>>, <<NotesTxt>>, <<ZipA, NotesTxt>>, <<ZipAB>>, <<ZipAB, NotesTxt, ZipA>> }

\* candidate entry names
CJpg == <<"c",".","j","p","g">>
BCJpg == <<"b","_","c",".","j","p","g">>
DCJpg == <<"d","/","c",".","j","p","g">>
CPng == <<"c",".","P","N","G">>
CJpeg == <<"c",".","j","p","e","g">>

\* candidate namelists of each archive
Namelists(n) ==
    IF n = ZipA
    THEN { <<BCJpg>>, <<CJpg, DCJpg>>, <<CJpg, CPng>>, <<NotesTxt, CJpeg>>, <<>> }
    ELSE IF n = ZipAB THEN { <<CJpg>>, <<>> }
    ELSE { <<>> }

\* what zipfile.ZipFile(zip_path) does: opens, raises BadZipFile, raises OSError
OpenOutcomes == {"ok", "badzip", "oserror"}

\* what lines 37-66 meet on one image entry: zip_ref.read raises; imdecode
\* returns None; predict raises; predict returns n boxes and the last
\* cv2.imwrite of the entry succeeds, raises or returns False
Outcome(kind, n, wmode) == [kind |-> kind, n |-> n, wmode |-> wmode]
Outcomes ==
    { Outcome("readerr", 0, "ok"), Outcome("undecodable", 0, "ok"),
      Outcome("infererr", 0, "ok") }
    \cup { Outcome("boxes", n, m) : n \in 0..MaxBoxes, m \in {"ok", "raise", "false"} }

input == <<listing, archive, modelLoads>>

Workers == 1..NumWorkers
NoName == <<>>
Idle == [task |-> 0, stage |-> "idle", image_files |-> <<>>, k |-> 0]

Logged(rec) == log (+) SetToBag({rec})

\* line 87: glob.glob(os.path.join(INPUT_DIR, '*.zip'))
IsZipName(m) == EndsWith(m, <<".","z","i","p">>) /\ m[1] # "."
Glob(names) ==
    LET hits == SelectSeq(names, IsZipName)
    IN  [k \in 1..Len(hits) |-> PathJoin(INPUT_DIR, hits[k])]

Listed(n) == \E k \in 1..Len(listing) : listing[k] = n

ArchiveOf(zip_path) == archive[Basename(zip_path)]

Init ==
    /\ listing \in Listings
    /\ archive \in [DirNames -> [namelist : UNION { Namelists(n) : n \in DirNames },
                                 open : OpenOutcomes]]
    /\ \A n \in DirNames :
          /\ archive[n].namelist \in Namelists(n)
          /\ (~Listed(n) \/ ~IsZipName(n)) =>
                archive[n] = [namelist |-> <<>>, open |-> "ok"]
    /\ modelLoads \in BOOLEAN
    /\ oc = <<>>
    /\ run = 1
    /\ pc = "mkdirs"
    /\ dirs = {}
    /\ files = {}
    /\ zip_files = <<>>
    /\ fut = <<>>
    /\ result = <<>>
    /\ nxt = 0
    /\ wk = [w \in Workers |-> Idle]
    /\ loads = [w \in Workers |-> 0]
    /\ calls = <<>>
    /\ handled = {}
    /\ wrote = {}
    /\ log = EmptyBag

\* lines 82-84
MakeDirs ==
    /\ pc = "mkdirs"
    /\ dirs' = dirs \cup {PERSON_DIR, NO_PERSON_DIR}
    /\ log' = Logged(<<"INFO", "Creating output directories...", NoName, NoName>>)
    /\ pc' = "glob"
    /\ UNCHANGED <<input, oc, run, files, zip_files, fut, result, nxt, wk, loads,
                   calls, handled, wrote>>

\* lines 87-92
CollectInputs ==
    /\ pc = "glob"
    /\ IF Glob(listing) = <<>>
       THEN /\ log' = Logged(<<"ERROR", "No ZIP files found", NoName, NoName>>)
            /\ pc' = "returned"
            /\ UNCHANGED zip_files
       ELSE /\ zip_files' = Glob(listing)
            /\ log' = Logged(<<"INFO", "Found ZIP files to process", NoName, NoName>>)
            /\ pc' = "submit"
    /\ UNCHANGED <<input, oc, run, dirs, files, fut, result, nxt, wk, loads, calls,
                   handled, wrote>>

\* lines 95-97: executor.map submits one call per element of zip_files
LaunchPool ==
    /\ pc = "submit"
    /\ fut' = [i \in 1..Len(zip_files) |-> "pending"]
    /\ result' = [i \in 1..Len(zip_files) |-> NoName]
    /\ calls' = [i \in 1..Len(zip_files) |-> 0]
    /\ nxt' = 1
    /\ pc' = "collect"
    /\ UNCHANGED <<input, oc, run, dirs, files, zip_files, wk, loads, handled, wrote, log>>

\* ProcessPoolExecutor hands the calls out in submission order
NextPending == CHOOSE i \in DOMAIN fut : fut[i] = "pending" /\ \A j \in 1..(i-1) : fut[j] # "pending"

\* line 27, as run by the worker process that takes the call
LoadsAfterCall(w) == [loads EXCEPT ![w] = @ + 1]

\* line 75
ReturnValue(zip_path) == zip_path

\* a worker process takes the next call: process_zip_archive starts, line 27
\* (the processes are alike: the lowest idle one stands for whichever takes it)
StartCall(w) ==
    /\ pc = "collect"
    /\ wk[w].stage = "idle"
    /\ \A v \in 1..(w-1) : wk[v].stage # "idle"
    /\ \E i \in DOMAIN fut : fut[i] = "pending"
    /\ LET i == NextPending IN
          /\ calls' = [calls EXCEPT ![i] = @ + 1]
          /\ IF modelLoads
             THEN /\ loads' = LoadsAfterCall(w)
                  /\ wk' = [wk EXCEPT ![w] = [Idle EXCEPT !.task = i, !.stage = "open"]]
                  /\ fut' = [fut EXCEPT ![i] = "running"]
             ELSE \* YOLO(...) raises outside every try: the call raises
                  /\ fut' = [fut EXCEPT ![i] = "raised"]
                  /\ UNCHANGED <<loads, wk>>
    /\ UNCHANGED <<input, oc, run, pc, dirs, files, zip_files, result, nxt, handled,
                   wrote, log>>

\* the try statement is left: only line 75 remains
ToReturn(w) == wk' = [wk EXCEPT ![w] = [@ EXCEPT !.stage = "ret"]]

\* an except clause that swallows the failure without a log line
OpenErrorLogSilent(zp, open) == log

\* lines 70-73: what a failure to open the archive logs
OpenErrorLog(zp, open) ==
    IF open = "badzip"
    THEN Logged(<<"ERROR", "Bad zip file", zp, NoName>>)
    ELSE Logged(<<"ERROR", "Unhandled error in worker", zp, NoName>>)

\* lines 30-32 and 70-75
OpenArchive(w) ==
    /\ wk[w].stage = "open"
    /\ LET i == wk[w].task
           zp == zip_files[i]
           a == ArchiveOf(zp)
           image_files == SelectSeq(a.namelist, IsImageName)
       IN  CASE a.open # "ok" ->
                  /\ log' = OpenErrorLog(zp, a.open)
                  /\ ToReturn(w)
             [] a.open = "ok" /\ image_files = <<>> ->
                  /\ ToReturn(w)
                  /\ UNCHANGED log
             [] OTHER ->
                  /\ wk' = [wk EXCEPT ![w] = [@ EXCEPT !.stage = "loop",
                                                      !.image_files = image_files,
                                                      !.k = 1]]
                  /\ UNCHANGED log
    /\ UNCHANGED <<input, oc, run, pc, dirs, files, zip_files, fut, result, nxt, loads,
                   calls, handled, wrote>>

\* lines 50-60: the crops cv2.imwrite stores, given the outcome
CropsWritten(o) ==
    IF PERSON_DIR \notin dirs THEN {}
    ELSE { d \in 0..(o.n - 1) : o.wmode = "ok" \/ d < o.n - 1 }

\* the whole image written without the test of person_detected
WholeWrittenAlways(o) ==
    /\ o.kind = "boxes"
    /\ o.wmode = "ok"
    /\ NO_PERSON_DIR \in dirs

\* lines 62-66: whether the whole image is written to No_Person
WholeWritten(o) ==
    /\ o.kind = "boxes"
    /\ o.n = 0           \* person_detected stayed False
    /\ o.wmode = "ok"
    /\ NO_PERSON_DIR \in dirs

\* the writes of one pass of the loop body, as <<detection index, path>>
Writes(zp, name, o) ==
    IF o.kind # "boxes" THEN {}
    ELSE { <<d, PersonPath(zp, name, d)>> : d \in CropsWritten(o) }
         \cup (IF WholeWritten(o) THEN { <<-1, NoPersonPath(zp, name)>> } ELSE {})

\* lines 41-43 and 68-69: what one pass of the loop body logs
EntryLog(zp, name, o) ==
    CASE o.kind = "undecodable" ->
            Logged(<<"WARNING", "Could not decode image", zp, name>>)
      [] o.kind \in {"readerr", "infererr"} \/ o.wmode = "raise" ->
            Logged(<<"ERROR", "Error processing image", zp, name>>)
      [] OTHER -> log

\* break in place of continue on line 43
LoopEndsBreak(k, image_files, o) == k = Len(image_files) \/ o.kind = "undecodable"

\* line 34 (and line 43): whether the pass over entry k was the last one
LoopEnds(k, image_files, o) == k = Len(image_files)

\* lines 34-69: one pass of the loop body
ProcessImage(w) ==
    /\ wk[w].stage = "loop"
    /\ LET i == wk[w].task
           zp == zip_files[i]
           name == wk[w].image_files[wk[w].k]
           key == <<zp, name>>
       IN  \E o \in (IF key \in DOMAIN oc THEN {oc[key]} ELSE Outcomes) :
             /\ oc' = IF key \in DOMAIN oc THEN oc ELSE oc @@ (key :> o)
             /\ files' = files \cup { wr[2] : wr \in Writes(zp, name, o) }
             /\ wrote' = wrote \cup { <<i, name, wr[1], wr[2]>> : wr \in Writes(zp, name, o) }
             /\ log' = EntryLog(zp, name, o)
             /\ handled' = handled \cup {<<i, name>>}
             /\ IF LoopEnds(wk[w].k, wk[w].image_files, o)
                THEN ToReturn(w)
                ELSE wk' = [wk EXCEPT ![w] = [@ EXCEPT !.k = @ + 1]]
    /\ UNCHANGED <<input, run, pc, dirs, zip_files, fut, result, nxt, loads, calls>>

\* line 75: the call returns and the worker process is free again
Return(w) ==
    /\ wk[w].stage = "ret"
    /\ wk' = [wk EXCEPT ![w] = Idle]
    /\ fut' = [fut EXCEPT ![wk[w].task] = "returned"]
    /\ result' = [result EXCEPT ![wk[w].task] = ReturnValue(zip_files[wk[w].task])]
    /\ UNCHANGED <<input, oc, run, pc, dirs, files, zip_files, nxt, loads, calls,
                   handled, wrote, log>>

\* line 97: list(tqdm(executor.map(...))) takes the results in order
CollectResult ==
    /\ pc = "collect"
    /\ nxt <= Len(zip_files)
    /\ fut[nxt] \in {"returned", "raised"}
    /\ IF fut[nxt] = "returned"
       THEN /\ nxt' = nxt + 1
            /\ UNCHANGED <<pc, fut>>
       ELSE \* the call's exception is re-raised; the pending calls are cancelled
            /\ fut' = [i \in DOMAIN fut |-> IF fut[i] = "pending" THEN "cancelled" ELSE fut[i]]
            /\ pc' = "unwinding"
            /\ UNCHANGED nxt
    /\ UNCHANGED <<input, oc, run, dirs, files, zip_files, result, wk, loads, calls,
                   handled, wrote, log>>

\* lines 95-99: the with block ends, then the last log line
Complete ==
    /\ pc = "collect"
    /\ nxt > Len(zip_files)
    /\ log' = Logged(<<"INFO", "Processing complete.", NoName, NoName>>)
    /\ pc' = "done"
    /\ UNCHANGED <<input, oc, run, dirs, files, zip_files, fut, result, nxt, wk, loads,
                   calls, handled, wrote>>

\* line 95: leaving the with block on an exception waits for the running calls,
\* then the exception leaves main (line 104)
Propagate ==
    /\ pc = "unwinding"
    /\ \A i \in DOMAIN fut : fut[i] # "running"
    /\ pc' = "raised"
    /\ UNCHANGED <<input, oc, run, dirs, files, zip_files, fut, result, nxt, wk, loads,
                   calls, handled, wrote, log>>

\* lines 101-104: the script is started again on the same input
Rerun ==
    /\ pc \in {"done", "returned", "raised"}
    /\ run < MaxRuns
    /\ run' = run + 1
    /\ pc' = "mkdirs"
    /\ zip_files' = <<>>
    /\ fut' = <<>>
    /\ result' = <<>>
    /\ nxt' = 0
    /\ wk' = [w \in Workers |-> Idle]
    /\ loads' = [w \in Workers |-> 0]
    /\ calls' = <<>>
    /\ handled' = {}
    /\ wrote' = {}
    /\ log' = EmptyBag
    /\ UNCHANGED <<input, oc, dirs, files>>

Next ==
    \/ MakeDirs
    \/ CollectInputs
    \/ LaunchPool
    \/ \E w \in Workers : StartCall(w)
    \/ \E w \in Workers : OpenArchive(w)
    \/ \E w \in Workers : ProcessImage(w)
    \/ \E w \in Workers : Return(w)
    \/ CollectResult
    \/ Complete
    \/ Propagate

\* one start of the script
Spec == Init /\ [][Next]_vars

NextRerun == Next \/ Rerun

\* the script started up to MaxRuns times on the same input
SpecRerun == Init /\ [][NextRerun]_vars

\* ------------------------------------------------------------ observations
InDir(path, dir) ==
    /\ Len(path) > Len(dir) + 1
    /\ SubSeq(path, 1, Len(dir) + 1) = dir \o <<"/">>

\* paths written in directory dir for entry name of the archive at position i
PathsFor(i, name, dir) ==
    { r[4] : r \in { q \in wrote : q[1] = i /\ q[2] = name /\ InDir(q[4], dir) } }

WritesOf(i) == { r \in wrote : r[1] = i }

OutcomeOf(h) == oc[<<zip_files[h[1]], h[2]>>]

Decoded(h) == OutcomeOf(h).kind \in {"infererr", "boxes"}

\* inference returned and no cv2.imwrite failed
Clean(h) == OutcomeOf(h).kind = "boxes" /\ OutcomeOf(h).wmode = "ok"

ImageNames(i) ==
    LET fs == SelectSeq(ArchiveOf(zip_files[i]).namelist, IsImageName)
    IN  { fs[k] : k \in 1..Len(fs) }

RECURSIVE SumCopies(_)
SumCopies(S) ==
    IF S = {} THEN 0
    ELSE LET r == CHOOSE q \in S : TRUE IN CopiesIn(r, log) + SumCopies(S \ {r})

\* how many records of this level the log holds about entry name of zp
LogCount(level, zp, name) ==
    SumCopies({ r \in BagToSet(log) : r[1] = level /\ r[3] = zp /\ r[4] = name })

\* how many records of this level the log holds about zp and its entries
ArchiveLogCount(level, zp) ==
    SumCopies({ r \in BagToSet(log) : r[1] = level /\ r[3] = zp })

RECURSIVE SumBoxes(_)
SumBoxes(H) ==
    IF H = {} THEN 0
    ELSE LET h == CHOOSE q \in H : TRUE IN OutcomeOf(h).n + SumBoxes(H \ {h})

FilesIn(dir) == { f \in files : InDir(f, dir) }

Busy(w) == wk[w].stage # "idle"

\* ------------------------------------------------------------------ claims

\* C1 as stated: every decoded entry the loop is through with has either one
\* or more crops in Person or exactly one whole image in No_Person, never
\* both and never neither, whatever the detector and the writes did.
C1_ExactlyOneBucket ==
    \A h \in handled :
        Decoded(h) =>
            LET P == PathsFor(h[1], h[2], PERSON_DIR)
                N == PathsFor(h[1], h[2], NO_PERSON_DIR)
            IN  \/ P # {} /\ N = {}
                \/ P = {} /\ Cardinality(N) = 1

\* C1 amended: a decoded entry never has output in both directories and never
\* more than one whole image; when inference returned and no cv2.imwrite
\* failed it has exactly one of: one or more crops in Person, or one whole
\* image in No_Person; when inference raised it has no output at all.
C1_Routing ==
    \A h \in handled :
        Decoded(h) =>
            LET P == PathsFor(h[1], h[2], PERSON_DIR)
                N == PathsFor(h[1], h[2], NO_PERSON_DIR)
            IN  /\ ~(P # {} /\ N # {})
                /\ Cardinality(N) <= 1
                /\ Clean(h) => \/ P # {} /\ N = {}
                               \/ P = {} /\ Cardinality(N) = 1
                /\ OutcomeOf(h).kind = "infererr" => P = {} /\ N = {}

\* C1 witness: one archive holds an entry with several crops written and an
\* entry whose whole image went to No_Person
C1_Witness ==
    \E h, g \in handled :
        /\ h[1] = g[1]
        /\ Clean(h) /\ OutcomeOf(h).n >= 2
        /\ Cardinality(PathsFor(h[1], h[2], PERSON_DIR)) >= 2
        /\ Clean(g) /\ OutcomeOf(g).n = 0
        /\ Cardinality(PathsFor(g[1], g[2], NO_PERSON_DIR)) = 1

\* C2: two different (archive, image entry, detection index) writes of a run
\* never go to the same output path.
C2_UniquePaths ==
    \A r, q \in wrote :
        <<r[1], r[2], r[3]>> # <<q[1], q[2], q[3]>> => r[4] # q[4]

\* C3: two calls of process_zip_archive running at the same time on different
\* archives never both have a write on one path.
C3_NoSharedPath ==
    \A v, w \in Workers :
        (v # w /\ Busy(v) /\ Busy(w)) =>
            { r[4] : r \in WritesOf(wk[v].task) } \cap
            { r[4] : r \in WritesOf(wk[w].task) } = {}

\* C4: no failure inside a worker fails the run: no call raises, no call is
\* cancelled, and no exception leaves the pool into main.
C4_NoFailureEscapes ==
    /\ pc \notin {"unwinding", "raised"}
    /\ \A i \in DOMAIN fut : fut[i] \notin {"raised", "cancelled"}

\* C5: a worker process loads the detection model at most once, however many
\* archives it handles.
C5_OneLoadPerProcess ==
    \A w \in Workers : loads[w] <= 1

\* C6 as stated: an archive found corrupt, on opening or while an entry is
\* read, has no output file and exactly one logged error once its call is over.
C6_CorruptNoOutput ==
    \A i \in DOMAIN fut :
        ( /\ fut[i] = "returned"
          /\ \/ ArchiveOf(zip_files[i]).open = "badzip"
             \/ \E h \in handled : h[1] = i /\ OutcomeOf(h).kind = "readerr" )
        => /\ WritesOf(i) = {}
           /\ ArchiveLogCount("ERROR", zip_files[i]) = 1

\* C6 amended: an archive found corrupt on opening has no output file and
\* exactly one logged error, its call returns its path, it cancels no other
\* call and, when main completes, every other archive was processed to the
\* end; an entry whose read fails has no output file and exactly one logged
\* error, and the other entries of its archive are still processed.
C6_CorruptArchive ==
    /\ \A i \in DOMAIN fut :
          (fut[i] = "returned" /\ ArchiveOf(zip_files[i]).open = "badzip") =>
             /\ WritesOf(i) = {}
             /\ ArchiveLogCount("ERROR", zip_files[i]) = 1
             /\ result[i] = zip_files[i]
             /\ \A j \in DOMAIN fut : fut[j] # "cancelled"
             /\ pc = "done" =>
                   \A j \in DOMAIN fut :
                      /\ fut[j] = "returned"
                      /\ ArchiveOf(zip_files[j]).open = "ok" =>
                            \A n \in ImageNames(j) : <<j, n>> \in handled
    /\ \A h \in handled :
          OutcomeOf(h).kind = "readerr" =>
             /\ { r \in wrote : r[1] = h[1] /\ r[2] = h[2] } = {}
             /\ LogCount("ERROR", zip_files[h[1]], h[2]) = 1
             /\ fut[h[1]] = "returned" =>
                   \A n \in ImageNames(h[1]) : <<h[1], n>> \in handled

\* C6 witness: main completed a batch in which one archive was corrupt on
\* opening and the other one has an unreadable entry and a written entry
C6_Witness ==
    /\ pc = "done"
    /\ \E i, j \in DOMAIN fut :
          /\ ArchiveOf(zip_files[i]).open = "badzip"
          /\ WritesOf(j) # {}
          /\ \E h \in handled : h[1] = j /\ OutcomeOf(h).kind = "readerr"

\* C7: an entry that does not decode has no output file and exactly one
\* logged warning, and once the call is over every other image entry of the
\* archive, before or after it, was processed and has its output.
C7_DecodeFailure ==
    \A h \in handled :
        OutcomeOf(h).kind = "undecodable" =>
            /\ { r \in wrote : r[1] = h[1] /\ r[2] = h[2] } = {}
            /\ LogCount("WARNING", zip_files[h[1]], h[2]) = 1
            /\ fut[h[1]] = "returned" =>
                  \A n \in ImageNames(h[1]) \ {h[2]} :
                     /\ <<h[1], n>> \in handled
                     /\ Clean(<<h[1], n>>) =>
                           Cardinality({ r \in wrote : r[1] = h[1] /\ r[2] = n }) =
                              IF OutcomeOf(<<h[1], n>>).n > 0
                              THEN OutcomeOf(<<h[1], n>>).n ELSE 1

\* C7 witness: the first entry of a returned archive did not decode and the
\* entry after it has its crops
C7_Witness ==
    \E i \in DOMAIN fut :
        /\ fut[i] = "returned"
        /\ <<i, CJpg>> \in handled /\ <<i, DCJpg>> \in handled
        /\ OutcomeOf(<<i, CJpg>>).kind = "undecodable"
        /\ Clean(<<i, DCJpg>>)
        /\ Cardinality(PathsFor(i, DCJpg, PERSON_DIR)) = MaxBoxes

\* C8: after a run from empty output directories over archives that open and
\* hold only images that decode, are inferred and are written without error,
\* Person holds as many files as boxes were detected and No_Person as many as
\* there are images without a box.
C8_Counts ==
    ( /\ pc = "done"
      /\ run = 1
      /\ \A i \in DOMAIN fut : ArchiveOf(zip_files[i]).open = "ok"
      /\ \A h \in handled : Clean(h) )
    => /\ Cardinality(FilesIn(PERSON_DIR)) = SumBoxes(handled)
       /\ Cardinality(FilesIn(NO_PERSON_DIR)) =
             Cardinality({ h \in handled : OutcomeOf(h).n = 0 })

\* C9: from the second start of the script on, no step adds an output path:
\* every write goes to a path that exists already.
C9_Idempotent == [][run >= 2 => files' = files]_vars

\* C9 witness: the second run has written crops and a whole image
C9_Witness ==
    /\ run = 2
    /\ \E r, q \in wrote : InDir(r[4], PERSON_DIR) /\ InDir(q[4], NO_PERSON_DIR)

\* C10: every archive is handed to process_zip_archive at most once and, when
\* main is over, exactly once; every call that is over returned its own input
\* path; nothing is written before both output directories exist; and
\* "Processing complete." is logged only when every call has returned.
C10_Dispatch ==
    /\ \A i \in DOMAIN calls : calls[i] <= 1
    /\ \A i \in DOMAIN fut :
          /\ fut[i] \notin {"raised", "cancelled"}
          /\ fut[i] = "returned" => result[i] = zip_files[i]
    /\ wrote # {} => {PERSON_DIR, NO_PERSON_DIR} \subseteq dirs
    /\ pc \in {"done", "raised"} =>
          \A i \in DOMAIN fut : calls[i] = 1 /\ fut[i] = "returned"
    /\ CopiesIn(<<"INFO", "Processing complete.", NoName, NoName>>, log) > 0 =>
          \A i \in DOMAIN fut : fut[i] = "returned"

====
